---- MODULE Spec2Model ----
(***************************************************************************)
(* A model of the URL Access API (src/servers/url-access/main.py): the     *)
(* three route handlers fetch_url_content, analyze_url and health_check,   *)
(* and the helper extract_text_from_html.                                  *)
(*                                                                         *)
(* Representation.  A Python str or bytes value is a sequence of           *)
(* one-character strings, so len, slicing, search and concatenation are    *)
(* the sequence operations.  One extra element, Blk, stands for a run of   *)
(* BlkLen identical bytes "x" (a letter: not whitespace, not markup); it   *)
(* makes bodies of 10 MiB representable.  Every text operation used by the *)
(* program treats a run of one letter as it treats the letter, only len    *)
(* sees the difference, and ByteLen accounts for it.                       *)
(* An Optional value is None (the empty sequence) or Some(x) (<<x>>).      *)
(* A message built by an f-string is the sequence of its fragments.        *)
(*                                                                         *)
(* The service keeps no state between requests (no globals are written),   *)
(* so a behaviour is one request: the handler runs from the idle state to  *)
(* the state that holds its response.                                      *)
(***************************************************************************)
EXTENDS Integers, Sequences, FiniteSets, TLC

VARIABLES
    request,    \* the call being served: the handler and its parameters
    upstream,   \* what the outbound HTTP call meets (the environment's choice)
    result      \* what the caller receives

vars == <<request, upstream, result>>

None == <<>>
Some(x) == <<x>>

Idle == [op |-> "idle"]
NoUpstream == [kind |-> "none"]
Pending == [kind |-> "pending"]

----------------------------------------------------------------------------
(* Python str primitives, on sequences of characters.                      *)

Blk == "x*5MiB"

\* str.isspace of one character (the whitespace the model's alphabet holds)
IsSpace(c) == c \in {" ", "\t", "\n", "\r"}

\* s[i:j] with 1-based inclusive bounds
Slice(s, i, j) == IF j < i THEN <<>> ELSE SubSeq(s, i, j)

\* s.startswith(pat, i-1)
StartsAt(s, i, pat) ==
    /\ i + Len(pat) - 1 <= Len(s)
    /\ \A k \in 1..Len(pat) : s[i + k - 1] = pat[k]

\* pat in s
Contains(s, pat) == \E i \in 1..(Len(s) + 1) : StartsAt(s, i, pat)

\* the least and the greatest element of a set of indexes, 0 when it is empty
FirstOf(S) == IF S = {} THEN 0 ELSE CHOOSE i \in S : \A k \in S : i <= k
LastOf(S) == IF S = {} THEN 0 ELSE CHOOSE i \in S : \A k \in S : k <= i

\* s.find(pat, i-1) as a 1-based index, 0 when absent
FindFrom(s, i, pat) == FirstOf({k \in i..(Len(s) - Len(pat) + 1) : StartsAt(s, k, pat)})

\* str.lstrip()
LStrip(s) ==
    LET k == FirstOf({i \in 1..Len(s) : ~IsSpace(s[i])})
    IN  IF k = 0 THEN <<>> ELSE SubSeq(s, k, Len(s))

\* str.rstrip()
RStrip(s) == SubSeq(s, 1, LastOf({i \in 1..Len(s) : ~IsSpace(s[i])}))

\* str.strip()
Strip(s) == RStrip(LStrip(s))

\* str.splitlines(): breaks at \n, \r and \r\n; no final empty line
RECURSIVE SplitLines(_)
SplitLines(s) ==
    LET k == FirstOf({i \in 1..Len(s) : s[i] \in {"\n", "\r"}})
        next == IF s[k] = "\r" /\ k < Len(s) /\ s[k + 1] = "\n" THEN k + 2 ELSE k + 1
    IN  IF s = <<>> THEN <<>>
        ELSE IF k = 0 THEN <<s>>
        ELSE <<Slice(s, 1, k - 1)>> \o SplitLines(Slice(s, next, Len(s)))

\* str.split(sep) for a non-empty sep: leftmost non-overlapping occurrences,
\* empty pieces kept
RECURSIVE SplitOn(_, _)
SplitOn(s, sep) ==
    LET k == FindFrom(s, 1, sep)
    IN  IF k = 0 THEN <<s>>
        ELSE <<Slice(s, 1, k - 1)>> \o SplitOn(Slice(s, k + Len(sep), Len(s)), sep)

\* str.split(): the maximal runs of non-whitespace
RECURSIVE SplitWs(_)
SplitWs(s) ==
    LET t == LStrip(s)
        k == FirstOf({i \in 1..Len(t) : IsSpace(t[i])})
    IN  IF t = <<>> THEN <<>>
        ELSE IF k = 0 THEN <<t>>
        ELSE <<Slice(t, 1, k - 1)>> \o SplitWs(Slice(t, k, Len(t)))

\* sep.join(parts)
RECURSIVE Join(_, _)
Join(sep, parts) ==
    IF parts = <<>> THEN <<>>
    ELSE IF Len(parts) = 1 THEN parts[1]
    ELSE parts[1] \o sep \o Join(sep, Tail(parts))

RECURSIVE Flatten(_)
Flatten(ss) == IF ss = <<>> THEN <<>> ELSE Head(ss) \o Flatten(Tail(ss))

\* [x.strip() for x in xs]
StripAll(xs) == [i \in 1..Len(xs) |-> Strip(xs[i])]

\* [x for x in xs if x]
RECURSIVE NonEmpty(_)
NonEmpty(xs) ==
    IF xs = <<>> THEN <<>>
    ELSE (IF Head(xs) # <<>> THEN <<Head(xs)>> ELSE <<>>) \o NonEmpty(Tail(xs))

\* all sequences over S of length at most n
SeqsUpTo(S, n) == UNION {[1..k -> S] : k \in 0..n}

----------------------------------------------------------------------------
(* extract_text_from_html, lines 99-102: the whitespace clean-up.          *)

\* a mutant: the two-space split is left out
CleanUpTextNoPhraseSplit(text) ==
    Join(<<" ">>, NonEmpty(StripAll(SplitLines(text))))

\* line 101: phrase.strip() for each line, for each phrase in line.split("  ")
StripPhrases(line) == StripAll(SplitOn(line, <<" ", " ">>))

CleanUpText(text) ==
    LET lines == StripAll(SplitLines(text))
        chunks == Flatten([i \in 1..Len(lines) |-> StripPhrases(lines[i])])
    IN  Join(<<" ">>, NonEmpty(chunks))

----------------------------------------------------------------------------
(* BeautifulSoup(html_content, 'html.parser'), line 55.                    *)
(*                                                                         *)
(* The parsed document is the sequence of its nodes in document order,     *)
(* each with the index of its parent (0: the soup object itself).  The     *)
(* model covers the markup its inputs are made of: start tags with         *)
(* double-quoted attributes, end tags, text, and the raw-text elements     *)
(* script and style; no comments, declarations, character references or   *)
(* self-closing syntax, and title holds text only.                         *)

UpperCase == <<"A", "B", "C", "D", "E", "F", "G", "H", "I", "J", "K", "L", "M", "N", "O", "P", "Q", "R", "S", "T", "U", "V", "W", "X", "Y", "Z">>
LowerCase == <<"a", "b", "c", "d", "e", "f", "g", "h", "i", "j", "k", "l", "m", "n", "o", "p", "q", "r", "s", "t", "u", "v", "w", "x", "y", "z">>

IsLetter(c) == \E i \in 1..26 : c = UpperCase[i] \/ c = LowerCase[i]

\* str.lower()
LowerChar(c) ==
    IF \E i \in 1..26 : c = UpperCase[i]
    THEN LowerCase[CHOOSE i \in 1..26 : c = UpperCase[i]]
    ELSE c

LowerStr(s) == [i \in 1..Len(s) |-> LowerChar(s[i])]

\* str.replace(pat, rep)
Replace(s, pat, rep) == Join(rep, SplitOn(s, pat))

\* html.parser: elements whose content is raw text up to their end tag
CDataTags == {<<"s", "c", "r", "i", "p", "t">>, <<"s", "t", "y", "l", "e">>}

\* bs4 HTMLTreeBuilder.empty_element_tags (those the inputs use)
VoidTags == {<<"m", "e", "t", "a">>, <<"b", "r">>}

TagNode(name, attrs, parent) ==
    [kind |-> "tag", name |-> name, attrs |-> attrs, text |-> <<>>, parent |-> parent]

TextNode(text, parent) ==
    [kind |-> "text", name |-> <<>>, attrs |-> <<>>, text |-> text, parent |-> parent]

\* the innermost open element
CurrentTag(stack) == IF stack = <<>> THEN 0 ELSE stack[Len(stack)]

handle_data(st, text) ==
    IF text = <<>> THEN st
    ELSE [st EXCEPT !.nodes = Append(@, TextNode(text, CurrentTag(st.stack)))]

\* a void element is closed as soon as it is opened
handle_starttag(st, name, attrs) ==
    [nodes |-> Append(st.nodes, TagNode(name, attrs, CurrentTag(st.stack))),
     stack |-> IF name \in VoidTags THEN st.stack
               ELSE Append(st.stack, Len(st.nodes) + 1),
     cdata |-> IF name \in CDataTags THEN name ELSE <<>>]

\* bs4 _popToTag: close everything up to the innermost open element of that
\* name; an end tag with no such open element is ignored
handle_endtag(st, name) ==
    LET top == LastOf({i \in 1..Len(st.stack) : st.nodes[st.stack[i]].name = name})
    IN  IF top = 0 THEN [st EXCEPT !.cdata = <<>>]
        ELSE [st EXCEPT !.stack = SubSeq(st.stack, 1, top - 1), !.cdata = <<>>]

\* name="value" pairs of a start tag; attribute names are lower-cased
RECURSIVE ParseAttrs(_)
ParseAttrs(s) ==
    LET t == LStrip(s)
        eq == FindFrom(t, 1, <<"=">>)
        q == IF eq = 0 THEN 0 ELSE FindFrom(t, eq + 2, <<"\"">>)
    IN  IF t = <<>> \/ eq = 0 \/ eq = Len(t) THEN <<>>
        ELSE IF t[eq + 1] # "\"" \/ q = 0 THEN <<>>
        ELSE <<<<LowerStr(Slice(t, 1, eq - 1)), Slice(t, eq + 2, q - 1)>>>>
                \o ParseAttrs(Slice(t, q + 1, Len(t)))

\* "<" opens a tag only before a letter, or "/" and a letter
IsMarkupAt(s, i) ==
    /\ s[i] = "<"
    /\ \/ i + 1 <= Len(s) /\ IsLetter(s[i + 1])
       \/ i + 2 <= Len(s) /\ s[i + 1] = "/" /\ IsLetter(s[i + 2])

\* the next position at or after i where markup starts, 0 when none
NextMarkup(s, i) == FirstOf({k \in i..Len(s) : IsMarkupAt(s, k)})

\* HTMLParser.goahead: feed the text from position i
RECURSIVE ParseFrom(_, _, _)
ParseFrom(s, i, st) ==
    IF i > Len(s) THEN st
    ELSE IF st.cdata # <<>> THEN
        LET close == <<"<", "/">> \o st.cdata \o <<">">>
            k == FindFrom(s, i, close)
        IN  IF k = 0 THEN handle_data(st, Slice(s, i, Len(s)))
            ELSE ParseFrom(s, k + Len(close),
                           handle_endtag(handle_data(st, Slice(s, i, k - 1)), st.cdata))
    ELSE IF IsMarkupAt(s, i) THEN
        LET k == FindFrom(s, i, <<">">>)
            inner == Slice(s, i + 1, k - 1)
            sp == FindFrom(inner, 1, <<" ">>)
            name == LowerStr(IF sp = 0 THEN inner ELSE Slice(inner, 1, sp - 1))
            attrs == IF sp = 0 THEN <<>> ELSE ParseAttrs(Slice(inner, sp, Len(inner)))
        IN  IF k = 0 THEN handle_data(st, Slice(s, i, Len(s)))
            ELSE IF inner[1] = "/"
                THEN ParseFrom(s, k + 1, handle_endtag(st, LowerStr(Strip(Tail(inner)))))
            ELSE ParseFrom(s, k + 1, handle_starttag(st, name, attrs))
    ELSE
        LET k == NextMarkup(s, i + 1)
            stop == IF k = 0 THEN Len(s) ELSE k - 1
        IN  ParseFrom(s, stop + 1, handle_data(st, Slice(s, i, stop)))

\* the soup: the nodes and the set of those still in the tree
BeautifulSoup(html_content) ==
    LET st == ParseFrom(html_content, 1, [nodes |-> <<>>, stack |-> <<>>, cdata |-> <<>>])
    IN  [nodes |-> st.nodes, alive |-> 1..Len(st.nodes)]

\* node j lies inside element i
RECURSIVE IsInside(_, _, _)
IsInside(nodes, j, i) ==
    LET p == nodes[j].parent
    IN  p # 0 /\ (p = i \/ IsInside(nodes, p, i))

IsTag(soup, i, name) == soup.nodes[i].kind = "tag" /\ soup.nodes[i].name = name

\* tag.get(attr): the last attribute of that name, as an Optional
GetAttr(node, attr) ==
    LET last == LastOf({i \in 1..Len(node.attrs) : node.attrs[i][1] = attr})
    IN  IF last = 0 THEN None ELSE Some(node.attrs[last][2])

\* tag.get(attr, '')
GetAttrOrEmpty(node, attr) ==
    IF GetAttr(node, attr) = None THEN <<>> ELSE GetAttr(node, attr)[1]

\* soup.find(name)
Find(soup, name) == FirstOf({i \in soup.alive : IsTag(soup, i, name)})

\* lines 58-59: for node in soup(names): node.decompose()
Decompose(soup, names) ==
    LET hit == {i \in soup.alive : \E n \in names : IsTag(soup, i, n)}
        gone == hit \cup {j \in soup.alive : \E i \in hit : IsInside(soup.nodes, j, i)}
    IN  [soup EXCEPT !.alive = @ \ gone]

\* the text nodes at index >= j that lie inside element i (all of them for i = 0)
RECURSIVE TextFrom(_, _, _)
TextFrom(soup, i, j) ==
    IF j > Len(soup.nodes) THEN <<>>
    ELSE (IF /\ j \in soup.alive
             /\ soup.nodes[j].kind = "text"
             /\ (i = 0 \/ IsInside(soup.nodes, j, i))
          THEN soup.nodes[j].text ELSE <<>>) \o TextFrom(soup, i, j + 1)

\* tag.get_text(); soup.get_text() for i = 0
get_text(soup, i) == TextFrom(soup, i, 1)

\* re.compile(r'content|main|article').search(value)
ClassPattern(value) ==
    \/ Contains(value, <<"c", "o", "n", "t", "e", "n", "t">>)
    \/ Contains(value, <<"m", "a", "i", "n">>)
    \/ Contains(value, <<"a", "r", "t", "i", "c", "l", "e">>)

\* soup.find('div', class_=re.compile(r'content|main|article'))
FindContentDiv(soup) ==
    FirstOf({i \in soup.alive :
                /\ IsTag(soup, i, <<"d", "i", "v">>)
                /\ GetAttr(soup.nodes[i], <<"c", "l", "a", "s", "s">>) # None
                /\ ClassPattern(GetAttr(soup.nodes[i], <<"c", "l", "a", "s", "s">>)[1])})

\* a mutant: article is tried before main
MainContentArticleFirst(soup) ==
    IF Find(soup, <<"a", "r", "t", "i", "c", "l", "e">>) # 0 THEN Find(soup, <<"a", "r", "t", "i", "c", "l", "e">>)
    ELSE IF Find(soup, <<"m", "a", "i", "n">>) # 0 THEN Find(soup, <<"m", "a", "i", "n">>)
    ELSE FindContentDiv(soup)

\* line 90: soup.find('main') or soup.find('article') or soup.find('div', ...);
\* 0 stands for None (a Tag is truthy even when empty)
MainContent(soup) ==
    IF Find(soup, <<"m", "a", "i", "n">>) # 0 THEN Find(soup, <<"m", "a", "i", "n">>)
    ELSE IF Find(soup, <<"a", "r", "t", "i", "c", "l", "e">>) # 0 THEN Find(soup, <<"a", "r", "t", "i", "c", "l", "e">>)
    ELSE FindContentDiv(soup)

\* lines 92-97
RegionText(soup) ==
    IF MainContent(soup) # 0 THEN get_text(soup, MainContent(soup))
    ELSE IF Find(soup, <<"b", "o", "d", "y">>) # 0 THEN get_text(soup, Find(soup, <<"b", "o", "d", "y">>))
    ELSE get_text(soup, 0)

\* dict[key] = value, on a dict kept as its items in insertion order
DictSet(d, key, value) ==
    IF \E i \in 1..Len(d) : d[i][1] = key
    THEN [i \in 1..Len(d) |-> IF d[i][1] = key THEN <<key, value>> ELSE d[i]]
    ELSE Append(d, <<key, value>>)

HasKey(d, key) == \E i \in 1..Len(d) : d[i][1] = key

\* soup.find('meta', attrs={'name': value})
FindMeta(soup, value) ==
    FirstOf({i \in soup.alive :
                /\ IsTag(soup, i, <<"m", "e", "t", "a">>)
                /\ GetAttr(soup.nodes[i], <<"n", "a", "m", "e">>) = Some(value)})

\* lines 71-78: the description and keywords entries
NamedMeta(soup, metadata, key) ==
    IF FindMeta(soup, key) = 0 THEN metadata
    ELSE DictSet(metadata, key, GetAttrOrEmpty(soup.nodes[FindMeta(soup, key)], <<"c", "o", "n", "t", "e", "n", "t">>))

\* lines 81-86: the Open Graph tags at index >= j, in document order
RECURSIVE OpenGraph(_, _, _)
OpenGraph(soup, metadata, j) ==
    IF j > Len(soup.nodes) THEN metadata
    ELSE LET node == soup.nodes[j]
             prop == GetAttrOrEmpty(node, <<"p", "r", "o", "p", "e", "r", "t", "y">>)
             property_name == Replace(prop, <<"o", "g", ":">>, <<>>)
             content == GetAttrOrEmpty(node, <<"c", "o", "n", "t", "e", "n", "t">>)
         IN  IF /\ j \in soup.alive
                /\ IsTag(soup, j, <<"m", "e", "t", "a">>)
                /\ StartsAt(prop, 1, <<"o", "g", ":">>)
                /\ property_name # <<>>
                /\ content # <<>>
             THEN OpenGraph(soup, DictSet(metadata, <<"o", "g", "_">> \o property_name, content), j + 1)
             ELSE OpenGraph(soup, metadata, j + 1)

\* lines 53-104; the url parameter is not used by the code
extract_text_from_html(html_content, url) ==
    LET soup == Decompose(BeautifulSoup(html_content), {<<"s", "c", "r", "i", "p", "t">>, <<"s", "t", "y", "l", "e">>})
        title_tag == Find(soup, <<"t", "i", "t", "l", "e">>)
        title == IF title_tag # 0 THEN Some(Strip(get_text(soup, title_tag))) ELSE None
        metadata == OpenGraph(soup,
                        NamedMeta(soup, NamedMeta(soup, <<>>, <<"d", "e", "s", "c", "r", "i", "p", "t", "i", "o", "n">>), <<"k", "e", "y", "w", "o", "r", "d", "s">>),
                        1)
    IN  [text |-> CleanUpText(RegionText(soup)), title |-> title, metadata |-> metadata]

----------------------------------------------------------------------------
(* json.loads and json.dumps(indent=2), lines 175-176.                     *)
(*                                                                         *)
(* A parsed value is [t, n, s, items]: t is "int", "str", "lit" (true,     *)
(* false, null), "arr" or "obj"; an object's items are its <<key, value>>  *)
(* pairs in insertion order.  The grammar is that of the json module for   *)
(* texts without a backslash, a sign, a fraction or an exponent (the       *)
(* inputs hold none).  DeepNest stands for a run of NestDepth characters   *)
(* "[", more than the interpreter's recursion limit lets the decoder       *)
(* descend: where a value may start, json.loads raises RecursionError,     *)
(* which is not a JSONDecodeError.                                         *)

DeepNest == "[*100000"

Digits == <<"0", "1", "2", "3", "4", "5", "6", "7", "8", "9">>

IsDigit(c) == \E i \in 1..10 : c = Digits[i]

DigitVal(c) == (CHOOSE i \in 1..10 : c = Digits[i]) - 1

JInt(n) == [t |-> "int", n |-> n, s |-> <<>>, items |-> <<>>]
JStr(s) == [t |-> "str", n |-> 0, s |-> s, items |-> <<>>]
JLit(s) == [t |-> "lit", n |-> 0, s |-> s, items |-> <<>>]
JArr(items) == [t |-> "arr", n |-> 0, s |-> <<>>, items |-> items]
JObj(items) == [t |-> "obj", n |-> 0, s |-> <<>>, items |-> items]

\* a parse result: the value and the position after it, or the exception raised
Parsed(val, pos) == [ok |-> TRUE, err |-> "", val |-> val, pos |-> pos]
ParseError(err) == [ok |-> FALSE, err |-> err, val |-> JLit(<<>>), pos |-> 0]
JSONDecodeError == ParseError("JSONDecodeError")
RecursionError == ParseError("RecursionError")

\* json.decoder.WHITESPACE.match(s, i).end()
RECURSIVE SkipWs(_, _)
SkipWs(s, i) ==
    IF i <= Len(s) /\ s[i] \in {" ", "\t", "\n", "\r"} THEN SkipWs(s, i + 1) ELSE i

\* the digits of [1-9][0-9]* from position i, with the value so far
RECURSIVE ScanDigits(_, _, _)
ScanDigits(s, i, n) ==
    IF i <= Len(s) /\ IsDigit(s[i]) THEN ScanDigits(s, i + 1, 10 * n + DigitVal(s[i]))
    ELSE Parsed(JInt(n), i)

\* NUMBER_RE: 0, or a non-zero digit and more digits
ParseNumber(s, i) ==
    IF s[i] = "0" THEN Parsed(JInt(0), i + 1) ELSE ScanDigits(s, i, 0)

\* py_scanstring in strict mode; s[i] is the opening quote
ParseString(s, i) ==
    LET k == FindFrom(s, i + 1, <<"\"">>)
        body == Slice(s, i + 1, k - 1)
    IN  IF k = 0 THEN JSONDecodeError
        ELSE IF \E j \in 1..Len(body) : body[j] \in {"\n", "\t", "\r"} THEN JSONDecodeError
        ELSE Parsed(JStr(body), k + 1)

ParseLiteral(s, i, word) ==
    IF StartsAt(s, i, word) THEN Parsed(JLit(word), i + Len(word)) ELSE JSONDecodeError

RECURSIVE ParseValue(_, _)
RECURSIVE ParseArrayItems(_, _, _)
RECURSIVE ParseObjectItems(_, _, _)

\* JSONArray after "[" or ",": s[i] starts a value
ParseArrayItems(s, i, items) ==
    LET v == ParseValue(s, i)
        j == SkipWs(s, v.pos)
    IN  IF ~v.ok THEN v
        ELSE IF j > Len(s) THEN JSONDecodeError
        ELSE IF s[j] = "]" THEN Parsed(JArr(Append(items, v.val)), j + 1)
        ELSE IF s[j] = "," THEN ParseArrayItems(s, SkipWs(s, j + 1), Append(items, v.val))
        ELSE JSONDecodeError

\* JSONObject after "{" or ",": s[i] must open a key
ParseObjectItems(s, i, items) ==
    LET key == IF i <= Len(s) /\ s[i] = "\"" THEN ParseString(s, i) ELSE JSONDecodeError
        colon == SkipWs(s, key.pos)
        v == ParseValue(s, SkipWs(s, colon + 1))
        j == SkipWs(s, v.pos)
        pairs == DictSet(items, key.val.s, v.val)
    IN  IF ~key.ok \/ colon > Len(s) THEN JSONDecodeError
        ELSE IF s[colon] # ":" THEN JSONDecodeError
        ELSE IF ~v.ok THEN v
        ELSE IF j > Len(s) THEN JSONDecodeError
        ELSE IF s[j] = "}" THEN Parsed(JObj(pairs), j + 1)
        ELSE IF s[j] = "," THEN ParseObjectItems(s, SkipWs(s, j + 1), pairs)
        ELSE JSONDecodeError

\* scanner.py_make_scanner _scan_once
ParseValue(s, i) ==
    IF i > Len(s) THEN JSONDecodeError
    ELSE IF s[i] = "\"" THEN ParseString(s, i)
    ELSE IF s[i] = "{" THEN
        (IF SkipWs(s, i + 1) <= Len(s) /\ s[SkipWs(s, i + 1)] = "}"
         THEN Parsed(JObj(<<>>), SkipWs(s, i + 1) + 1)
         ELSE ParseObjectItems(s, SkipWs(s, i + 1), <<>>))
    ELSE IF s[i] = "[" THEN
        (IF SkipWs(s, i + 1) <= Len(s) /\ s[SkipWs(s, i + 1)] = "]"
         THEN Parsed(JArr(<<>>), SkipWs(s, i + 1) + 1)
         ELSE ParseArrayItems(s, SkipWs(s, i + 1), <<>>))
    ELSE IF s[i] = "n" THEN ParseLiteral(s, i, <<"n", "u", "l", "l">>)
    ELSE IF s[i] = "t" THEN ParseLiteral(s, i, <<"t", "r", "u", "e">>)
    ELSE IF s[i] = "f" THEN ParseLiteral(s, i, <<"f", "a", "l", "s", "e">>)
    ELSE IF IsDigit(s[i]) THEN ParseNumber(s, i)
    ELSE IF s[i] = DeepNest THEN RecursionError
    ELSE JSONDecodeError

\* json.loads: one value between optional whitespace, and nothing after it
json_loads(s) ==
    LET v == ParseValue(s, SkipWs(s, 1))
    IN  IF ~v.ok THEN v
        ELSE IF SkipWs(s, v.pos) = Len(s) + 1 THEN v
        ELSE JSONDecodeError

\* str(n) for n >= 0
RECURSIVE IntToStr(_)
IntToStr(n) ==
    IF n < 10 THEN <<Digits[n + 1]>> ELSE IntToStr(n \div 10) \o <<Digits[(n % 10) + 1]>>

NonAscii == "U+00E9"

\* ensure_ascii: a non-ASCII character is written as its \u escape
EscapeChar(c) == IF c = NonAscii THEN <<"\\", "u", "0", "0", "e", "9">> ELSE <<c>>

EscapeStr(s) == Flatten([i \in 1..Len(s) |-> EscapeChar(s[i])])

Quoted(s) == <<"\"">> \o EscapeStr(s) \o <<"\"">>

\* the newline and indentation of nesting level lvl
Indent(lvl) == <<"\n">> \o [i \in 1..(2 * lvl) |-> " "]

RECURSIVE Dumps(_, _)
RECURSIVE DumpItems(_, _, _)

\* the items of a container, each on its own line at level lvl
DumpItems(v, lvl, i) ==
    LET item == IF v.t = "obj"
                THEN Quoted(v.items[i][1]) \o <<":", " ">> \o Dumps(v.items[i][2], lvl)
                ELSE Dumps(v.items[i], lvl)
    IN  IF i = Len(v.items) THEN Indent(lvl) \o item
        ELSE Indent(lvl) \o item \o <<",">> \o DumpItems(v, lvl, i + 1)

Dumps(v, lvl) ==
    IF v.t = "int" THEN IntToStr(v.n)
    ELSE IF v.t = "str" THEN Quoted(v.s)
    ELSE IF v.t = "lit" THEN v.s
    ELSE IF v.t = "arr" THEN
        (IF v.items = <<>> THEN <<"[", "]">>
         ELSE <<"[">> \o DumpItems(v, lvl + 1, 1) \o Indent(lvl) \o <<"]">>)
    ELSE
        (IF v.items = <<>> THEN <<"{", "}">>
         ELSE <<"{">> \o DumpItems(v, lvl + 1, 1) \o Indent(lvl) \o <<"}">>)

\* json.dumps(json_data, indent=2)
json_dumps(v) == Dumps(v, 0)

\* list(json_data.keys()) if isinstance(json_data, dict) else []
json_keys(v) ==
    IF v.t = "obj" THEN [i \in 1..Len(v.items) |-> v.items[i][1]] ELSE <<>>

----------------------------------------------------------------------------
(* Exceptions and the outbound HTTP call.                                  *)

\* an exception object: its class, str(e), and for an HTTPException or an
\* HTTPError the status code (of the exception, of e.response) and the detail
Exc(type, msg) == [type |-> type, msg |-> msg, status_code |-> 0, detail |-> ""]

\* fastapi.HTTPException(status_code=..., detail=...); str(e) is "<code>: <detail>"
HTTPException(status_code, detail) ==
    [type |-> "HTTPException", msg |-> ToString(status_code) \o ": " \o detail,
     status_code |-> status_code, detail |-> detail]

\* what a statement does: raise an exception, or yield a value
Raise(exc) == [outcome |-> "raise", exc |-> exc, value |-> None]
Return(value) == [outcome |-> "return", exc |-> Exc("", ""), value |-> value]

\* the base classes of the exception classes the handlers can meet
Bases(type) ==
    CASE type = "ConnectTimeout" -> {"ConnectionError", "Timeout"}
      [] type = "ReadTimeout" -> {"Timeout"}
      [] type = "SSLError" -> {"ConnectionError"}
      [] type = "Timeout" -> {"RequestException"}
      [] type = "ConnectionError" -> {"RequestException"}
      [] type = "HTTPError" -> {"RequestException"}
      [] type = "TooManyRedirects" -> {"RequestException"}
      [] type = "ChunkedEncodingError" -> {"RequestException"}
      [] type = "RequestException" -> {"Exception"}
      [] type = "HTTPException" -> {"Exception"}
      [] type = "UnicodeDecodeError" -> {"ValueError"}
      [] type = "ValueError" -> {"Exception"}
      [] type = "RecursionError" -> {"RuntimeError"}
      [] type = "RuntimeError" -> {"Exception"}
      [] OTHER -> {}

\* isinstance(e, cls): what an except clause tests
RECURSIVE IsInstance(_, _)
IsInstance(type, cls) == type = cls \/ \E b \in Bases(type) : IsInstance(b, cls)

\* the response object of requests: the status line, the two headers the
\* handlers read, and the body as the chunks iter_content yields; the stream
\* breaks with exception `fault` once fault_at chunks have been yielded
Response(status_code, content_type, content_length, chunks, fault, fault_at) ==
    [status_code |-> status_code, content_type |-> content_type,
     content_length |-> content_length, chunks |-> chunks,
     fault |-> fault, fault_at |-> fault_at]

\* requests.get / requests.head: the call raises, or returns the response it
\* ends on; a redirect answer is followed only with allow_redirects
requests_request(up, allow_redirects) ==
    IF up.kind = "exception" THEN Raise(up.exc)
    ELSE IF up.redirect # None /\ ~allow_redirects
        THEN Return(Response(up.redirect[1], None, None, <<>>, None, 0))
    ELSE Return(up.response)

\* Response.raise_for_status(): HTTPError for 4xx and 5xx, carrying the response
raise_for_status(response) ==
    IF 400 <= response.status_code /\ response.status_code < 600
    THEN Raise([type |-> "HTTPError", msg |-> ToString(response.status_code) \o " Error",
                status_code |-> response.status_code, detail |-> ""])
    ELSE Return(None)

----------------------------------------------------------------------------
(* fetch_url_content, lines 114-203.                                       *)

\* line 150
max_size == 10 * 1024 * 1024

\* the length of the run Blk stands for: half the limit
BlkLen == max_size \div 2

NestDepth == 100000

\* len(content): one per element, and the whole run for a run
ByteLen(s) ==
    Len(s) + (BlkLen - 1) * Cardinality({i \in 1..Len(s) : s[i] = Blk})
           + (NestDepth - 1) * Cardinality({i \in 1..Len(s) : s[i] = DeepNest})

\* a mutant: the loop stops at the limit and keeps what it has read
ReadBodyTruncating(response, i, content) ==
    LET Loop[k \in 1..(Len(response.chunks) + 1)] ==
            IF k > Len(response.chunks) THEN <<>>
            ELSE IF ByteLen(Flatten(SubSeq(response.chunks, 1, k))) > max_size THEN <<>>
            ELSE response.chunks[k] \o Loop[k + 1]
    IN  Return(Loop[1])

\* lines 151-155: the streaming read, from chunk i on, with content read so far
RECURSIVE ReadBody(_, _, _)
ReadBody(response, i, content) ==
    IF response.fault # None /\ i > response.fault_at
        THEN Raise(Exc(response.fault[1], "stream broken"))
    ELSE IF i > Len(response.chunks) THEN Return(content)
    ELSE IF ByteLen(content \o response.chunks[i]) > max_size
        THEN Raise(HTTPException(413, "Content too large (max 10MB)"))
    ELSE ReadBody(response, i + 1, content \o response.chunks[i])

\* the one byte above 0x7f of the model's alphabet; alone it is no valid UTF-8
ByteE9 == "0xE9"

\* content.decode('utf-8')
decode_utf8(content) ==
    IF \E i \in 1..Len(content) : content[i] = ByteE9
    THEN Raise(Exc("UnicodeDecodeError", "'utf-8' codec can't decode byte 0xe9"))
    ELSE Return(content)

\* content.decode('latin-1'): every byte is a character
decode_latin1(content) ==
    Return([i \in 1..Len(content) |-> IF content[i] = ByteE9 THEN NonAscii ELSE content[i]])

\* lines 157-164
Decode(content) ==
    IF decode_utf8(content).outcome = "return" THEN decode_utf8(content)
    ELSE IF decode_latin1(content).outcome = "return" THEN decode_latin1(content)
    ELSE Raise(HTTPException(422, "Unable to decode content as text"))

\* lines 166-179: the content-type dispatch
ProcessContent(content_type, extract_text, text_content, url_str) ==
    IF Contains(content_type, <<"t", "e", "x", "t", "/", "h", "t", "m", "l">>) /\ extract_text
        THEN Return(extract_text_from_html(text_content, url_str))
    ELSE IF Contains(content_type, <<"a", "p", "p", "l", "i", "c", "a", "t", "i", "o", "n", "/", "j", "s", "o", "n">>) THEN
        LET json_data == json_loads(text_content)
        IN  IF json_data.ok
                THEN Return([text |-> json_dumps(json_data.val), title |-> None,
                             metadata |-> <<<<<<"j", "s", "o", "n", "_", "k", "e", "y", "s">>, json_keys(json_data.val)>>>>])
            ELSE IF json_data.err = "JSONDecodeError"
                THEN Return([text |-> text_content, title |-> None, metadata |-> <<>>])
            ELSE Raise(Exc(json_data.err, "maximum recursion depth exceeded"))
    ELSE Return([text |-> text_content, title |-> None, metadata |-> <<>>])

\* a mutant: the words are counted before the content-type dispatch
WordCountOfBody(text_content, body_text) == Len(SplitWs(body_text))

\* line 182: len(text_content.split()), on the processed text
WordCount(text_content, body_text) == Len(SplitWs(text_content))

URLContentResponse(url, title, content, content_type, status_code, word_count, metadata) ==
    [kind |-> "URLContentResponse", url |-> url, title |-> title, content |-> content,
     content_type |-> content_type, status_code |-> status_code,
     word_count |-> word_count, metadata |-> metadata]

\* lines 181-192: the word count and the response model, unless the
\* dispatch raised
FetchReturn(url_str, content_type, response, text_content, processed) ==
    IF processed.outcome = "raise" THEN processed
    ELSE Return(URLContentResponse(url_str, processed.value.title, processed.value.text,
                    content_type, response.status_code,
                    WordCount(processed.value.text, text_content),
                    processed.value.metadata))

\* lines 166-192, reached with the decoded text unless decoding raised
FetchDecoded(url_str, extract_text, content_type, response, decoded) ==
    IF decoded.outcome = "raise" THEN decoded
    ELSE FetchReturn(url_str, content_type, response, decoded.value,
                     ProcessContent(content_type, extract_text, decoded.value, url_str))

\* lines 157-192, reached with the bytes read unless the read raised
FetchRead(url_str, extract_text, content_type, response, read) ==
    IF read.outcome = "raise" THEN read
    ELSE FetchDecoded(url_str, extract_text, content_type, response, Decode(read.value))

\* lines 144-192: what the try statement does with the response of requests.get
FetchResponse(url_str, extract_text, response) ==
    IF raise_for_status(response).outcome = "raise" THEN raise_for_status(response)
    ELSE FetchRead(url_str, extract_text,
                   LowerStr(IF response.content_type = None THEN <<>>
                            ELSE response.content_type[1]),
                   response, ReadBody(response, 1, <<>>))

\* lines 137-192: the body of the try statement
FetchTry(url_str, extract_text, follow_redirects, timeout, up) ==
    LET got == requests_request(up, follow_redirects)
    IN  IF got.outcome = "raise" THEN got
        ELSE FetchResponse(url_str, extract_text, got.value)

\* a mutant: an upstream HTTP error is reported as 500
FetchExceptHttp500(e) ==
    IF IsInstance(e.type, "Timeout") THEN HTTPException(408, "Request timeout")
    ELSE IF IsInstance(e.type, "ConnectionError")
        THEN HTTPException(503, "Unable to connect to the URL")
    ELSE IF IsInstance(e.type, "RequestException")
        THEN HTTPException(500, "Request error: " \o e.msg)
    ELSE HTTPException(500, "An internal error occurred: " \o e.msg)

\* lines 194-203: the except clauses, tried in order; each raises an
\* HTTPException, which leaves the handler
FetchExcept(e) ==
    IF IsInstance(e.type, "Timeout") THEN HTTPException(408, "Request timeout")
    ELSE IF IsInstance(e.type, "ConnectionError")
        THEN HTTPException(503, "Unable to connect to the URL")
    ELSE IF IsInstance(e.type, "HTTPError")
        THEN HTTPException(e.status_code, "HTTP error: " \o e.msg)
    ELSE IF IsInstance(e.type, "RequestException")
        THEN HTTPException(500, "Request error: " \o e.msg)
    ELSE HTTPException(500, "An internal error occurred: " \o e.msg)

\* what the caller of /fetch receives: the response model, or the error
\* response FastAPI builds from the HTTPException that left the handler
FetchOutcome(tried) ==
    IF tried.outcome = "return" THEN tried.value
    ELSE [kind |-> "HTTPException",
          status_code |-> FetchExcept(tried.exc).status_code,
          detail |-> FetchExcept(tried.exc).detail]

\* lines 114-203: the try statement with its except clauses
FetchResult(url_str, extract_text, follow_redirects, timeout, up) ==
    FetchOutcome(FetchTry(url_str, extract_text, follow_redirects, timeout, up))

----------------------------------------------------------------------------
(* analyze_url, lines 205-271.                                             *)

\* U+00B2 SUPERSCRIPT TWO (byte 0xB2 of a latin-1 header): a character that
\* str.isdigit accepts and int() rejects
Superscript2 == "U+00B2"

\* str.isdigit(): non-empty, every character a digit
isdigit(s) == s # <<>> /\ \A i \in 1..Len(s) : IsDigit(s[i]) \/ s[i] = Superscript2

\* the decimal value of a string of the digits 0-9
RECURSIVE DecimalValue(_, _)
DecimalValue(s, n) ==
    IF s = <<>> THEN n ELSE DecimalValue(Tail(s), 10 * n + DigitVal(Head(s)))

\* int(s) for a string isdigit accepts: the decimal value, or ValueError
int(s) ==
    IF \A i \in 1..Len(s) : IsDigit(s[i]) THEN Return(DecimalValue(s, 0))
    ELSE Raise(Exc("ValueError", "invalid literal for int() with base 10"))

URLAnalysisResponse(url, is_accessible, content_type, content_length, status_code, error_message) ==
    [kind |-> "URLAnalysisResponse", url |-> url, is_accessible |-> is_accessible,
     content_type |-> content_type, content_length |-> content_length,
     status_code |-> status_code, error_message |-> error_message]

\* lines 221-239: the body of the try statement
AnalyzeTry(url_str, timeout, up) ==
    LET got == requests_request(up, TRUE)
        response == got.value
        content_type == IF response.content_type = None THEN <<>>
                        ELSE response.content_type[1]
        content_length == response.content_length
    IN  IF got.outcome = "raise" THEN got
        ELSE IF content_length # None /\ content_length[1] # <<>> /\ isdigit(content_length[1])
            THEN (IF int(content_length[1]).outcome = "raise" THEN int(content_length[1])
                  ELSE Return(URLAnalysisResponse(url_str, TRUE, Some(content_type),
                                  Some(int(content_length[1]).value),
                                  Some(response.status_code), None)))
        ELSE Return(URLAnalysisResponse(url_str, TRUE, Some(content_type), None,
                        Some(response.status_code), None))

\* a mutant: the last except clause is missing
AnalyzeExceptNoCatchAll(url_str, e) ==
    IF IsInstance(e.type, "Timeout")
        THEN Return(URLAnalysisResponse(url_str, FALSE, None, None, None,
                                        Some("Request timeout")))
    ELSE IF IsInstance(e.type, "ConnectionError")
        THEN Return(URLAnalysisResponse(url_str, FALSE, None, None, None,
                                        Some("Unable to connect to the URL")))
    ELSE IF IsInstance(e.type, "HTTPError")
        THEN Return(URLAnalysisResponse(url_str, FALSE, None, None, Some(e.status_code),
                                        Some("HTTP error: " \o e.msg)))
    ELSE IF IsInstance(e.type, "RequestException")
        THEN Return(URLAnalysisResponse(url_str, FALSE, None, None, None,
                                        Some("Request error: " \o e.msg)))
    ELSE Raise(e)

\* lines 241-271: the except clauses, tried in order; each returns a result
AnalyzeExcept(url_str, e) ==
    IF IsInstance(e.type, "Timeout")
        THEN Return(URLAnalysisResponse(url_str, FALSE, None, None, None,
                                        Some("Request timeout")))
    ELSE IF IsInstance(e.type, "ConnectionError")
        THEN Return(URLAnalysisResponse(url_str, FALSE, None, None, None,
                                        Some("Unable to connect to the URL")))
    ELSE IF IsInstance(e.type, "HTTPError")
        THEN Return(URLAnalysisResponse(url_str, FALSE, None, None, Some(e.status_code),
                                        Some("HTTP error: " \o e.msg)))
    ELSE IF IsInstance(e.type, "RequestException")
        THEN Return(URLAnalysisResponse(url_str, FALSE, None, None, None,
                                        Some("Request error: " \o e.msg)))
    ELSE Return(URLAnalysisResponse(url_str, FALSE, None, None, None,
                                    Some("An internal error occurred: " \o e.msg)))

\* what the caller of /analyze receives: the response model, or the error
\* response of an exception that left the handler (500)
AnalyzeResult(url_str, timeout, up) ==
    LET tried == AnalyzeTry(url_str, timeout, up)
        handled == IF tried.outcome = "return" THEN tried
                   ELSE AnalyzeExcept(url_str, tried.exc)
    IN  IF handled.outcome = "return" THEN handled.value
        ELSE [kind |-> "HTTPException", status_code |-> 500,
              detail |-> "Internal Server Error"]

----------------------------------------------------------------------------
(* The inputs.                                                             *)

MaxChunks == 3
MaxHeaderLen == 3
MaxTextLen == 6
MaxFragments == 4

Urls == {"http://a.example/"}

\* timeout: ge=1, le=120, default 30 (line 119); ge=1, le=60, default 10 (line 208)
FetchTimeouts == {30}
AnalyzeTimeouts == {10}

\* the final status codes an upstream server answers with
StatusCodes == {200, 204, 304, 404, 503, 999}

\* the status of a redirect answer that carries a Location header
RedirectCodes == {301}

ContentTypes ==
    {None, Some(<<"t", "e", "x", "t", "/", "h", "t", "m", "l">>), Some(<<"T", "e", "x", "t", "/", "H", "T", "M", "L", ";", " ", "c", "h", "a", "r", "s", "e", "t", "=", "u", "t", "f", "-", "8">>),
     Some(<<"a", "p", "p", "l", "i", "c", "a", "t", "i", "o", "n", "/", "j", "s", "o", "n">>), Some(<<"t", "e", "x", "t", "/", "p", "l", "a", "i", "n">>)}

\* exceptions requests.get and requests.head raise, and one unexpected one
TransportErrors ==
    {Exc(t, m) : t \in {"Timeout", "ConnectTimeout", "ReadTimeout", "ConnectionError",
                        "SSLError", "TooManyRedirects", "RequestException", "ValueError"},
                 m \in {"", "boom"}}

\* exceptions iter_content raises when the stream breaks
StreamFaults == {"ChunkedEncodingError", "ConnectionError"}

DocExample ==
    <<"<", "h", "t", "m", "l", ">", "<", "h", "e", "a", "d", ">", "<", "t", "i", "t", "l", "e", ">", "T", "<", "/", "t", "i", "t", "l", "e", ">", "<", "/", "h", "e", "a", "d", ">", "<", "b", "o", "d", "y", ">", "<", "m", "a", "i", "n", ">", " ", " ", "H", "e", "l", "l", "o", " ", " ", " ", "W", "o", "r", "l", "d", " ", " ", "<", "/", "m", "a", "i", "n", ">", "<", "/", "b", "o", "d", "y", ">", "<", "/", "h", "t", "m", "l", ">">>

DocArticle ==
    <<"<", "h", "t", "m", "l", ">", "<", "h", "e", "a", "d", ">", "<", "t", "i", "t", "l", "e", ">", " ", "A", " ", "B", " ", "<", "/", "t", "i", "t", "l", "e", ">", "<", "m", "e", "t", "a", " ", "n", "a", "m", "e", "=", "\"", "d", "e", "s", "c", "r", "i", "p", "t", "i", "o", "n", "\"", " ", "c", "o", "n", "t", "e", "n", "t", "=", "\"", "d", " ", "e", "\"", ">">>
    \o <<"<", "m", "e", "t", "a", " ", "p", "r", "o", "p", "e", "r", "t", "y", "=", "\"", "o", "g", ":", "t", "i", "t", "l", "e", "\"", " ", "c", "o", "n", "t", "e", "n", "t", "=", "\"", "t", "\"", ">", "<", "s", "t", "y", "l", "e", ">", "s", "1", " ", "s", "2", "<", "/", "s", "t", "y", "l", "e", ">", "<", "/", "h", "e", "a", "d", ">">>
    \o <<"<", "b", "o", "d", "y", ">", "<", "s", "c", "r", "i", "p", "t", ">", "s", "3", " ", "<", "m", "a", "i", "n", ">", "s", "4", "<", "/", "m", "a", "i", "n", ">", "<", "/", "s", "c", "r", "i", "p", "t", ">", "<", "a", "r", "t", "i", "c", "l", "e", ">", "a", " ", " ", "b", "\n", " ", "c", "<", "/", "a", "r", "t", "i", "c", "l", "e", ">", "<", "p", ">", "d", "<", "/", "p", ">", "<", "/", "b", "o", "d", "y", ">", "<", "/", "h", "t", "m", "l", ">">>

DocDiv ==
    <<"<", "b", "o", "d", "y", ">", "<", "d", "i", "v", " ", "c", "l", "a", "s", "s", "=", "\"", "C", "o", "n", "t", "e", "n", "t", "\"", ">", "n", "<", "/", "d", "i", "v", ">", "<", "d", "i", "v", " ", "c", "l", "a", "s", "s", "=", "\"", "m", "y", "-", "c", "o", "n", "t", "e", "n", "t", " ", "x", "\"", ">", "a", "\t", "b", "<", "/", "d", "i", "v", ">", "z", "<", "/", "b", "o", "d", "y", ">">>

DocPlain == <<"a", " ", " ", "b", "\n", " ", "c", " ", "<", "p", ">", "d", " ", "e", "<", "/", "p", ">">>

JsonObject == <<"{", "\"", "a", "\"", ":", "1", ",", "\"", "b", "\"", ":", "2", "}">>
JsonBroken == <<"{", "\"", "a", "\"", ":", "1">>
JsonNested == <<" ", "[", "1", "0", ",", " ", "{", "\"", "k", "\"", ":", " ", "\"", "v", " ", "w", "\"", ",", " ", "\"", "k", "\"", ":", " ", "[", "]", "}", ",", " ", "t", "r", "u", "e", "]", "\n">>
JsonLatin1 == <<"{", "\"", "a", "\"", ":", " ", "\"">> \o <<ByteE9>> \o <<" ", "z", "\"", "}">>
JsonDeep == <<DeepNest>>
TextWords == <<"a", " ", "b", " ", " ", "c">>

Documents ==
    {<<>>, DocExample, DocArticle, DocDiv, DocPlain, JsonObject, JsonBroken, JsonNested,
     JsonLatin1, JsonDeep, TextWords}

\* a body as iter_content yields it: whole, or in two chunks
Chunkings(body) ==
    IF Len(body) < 2 THEN {<<body>>}
    ELSE {<<body>>,
          <<SubSeq(body, 1, Len(body) \div 2), SubSeq(body, Len(body) \div 2 + 1, Len(body))>>}

\* the chunks the streams are made of: small ones, and runs that reach the limit
ChunkAlphabet == {<<"a", " ">>, <<"b">>, <<Blk>>, <<Blk, Blk>>, <<Blk, Blk, "c">>}

FetchUpstreams ==
    {[kind |-> "exception", exc |-> e] : e \in TransportErrors}
    \cup
    {[kind |-> "response", redirect |-> r,
      response |-> Response(st, ct, None, chunks, None, 0)] :
        r \in {None} \cup {Some(c) : c \in RedirectCodes},
        st \in StatusCodes, ct \in ContentTypes,
        chunks \in UNION {Chunkings(d) : d \in Documents}}
    \cup
    UNION {{[kind |-> "response", redirect |-> None,
             response |-> Response(200, Some(<<"t", "e", "x", "t", "/", "p", "l", "a", "i", "n">>), None, chunks, f, k)] :
                f \in {None} \cup {Some(t) : t \in StreamFaults},
                k \in 0..Len(chunks)} :
           chunks \in SeqsUpTo(ChunkAlphabet, MaxChunks)}

HeaderChars == {"0", "1", "7", "a", "-", Superscript2}

AnalyzeUpstreams ==
    {[kind |-> "exception", exc |-> e] : e \in TransportErrors}
    \cup
    {[kind |-> "response", redirect |-> None,
      response |-> Response(st, ct, cl, <<>>, None, 0)] :
        st \in StatusCodes, ct \in {None, Some(<<"t", "e", "x", "t", "/", "h", "t", "m", "l">>)},
        cl \in {None} \cup {Some(v) : v \in SeqsUpTo(HeaderChars, MaxHeaderLen)}}

TextChars == {"a", " ", "\n", "\t", "\r"}

HtmlFragments ==
    {<<"<", "m", "a", "i", "n", ">">>, <<"<", "/", "m", "a", "i", "n", ">">>, <<"<", "a", "r", "t", "i", "c", "l", "e", ">">>, <<"<", "/", "a", "r", "t", "i", "c", "l", "e", ">">>, <<"<", "d", "i", "v", " ", "c", "l", "a", "s", "s", "=", "\"", "c", "o", "n", "t", "e", "n", "t", "\"", ">">>,
     <<"<", "/", "d", "i", "v", ">">>, <<"<", "b", "o", "d", "y", ">">>, <<"<", "s", "c", "r", "i", "p", "t", ">">>, <<"<", "/", "s", "c", "r", "i", "p", "t", ">">>, <<"<", "s", "t", "y", "l", "e", ">">>, <<"a">>, <<" ", "b">>}

----------------------------------------------------------------------------
(* The handlers as actions: one request, from idle to its result.          *)

Init ==
    /\ request = Idle
    /\ upstream = NoUpstream
    /\ result = Pending

\* GET /fetch
fetch_url_content ==
    /\ request = Idle
    /\ \E url \in Urls, extract_text \in BOOLEAN, follow_redirects \in BOOLEAN,
          timeout \in FetchTimeouts, up \in FetchUpstreams :
        /\ request' = [op |-> "fetch", url |-> url, extract_text |-> extract_text,
                       follow_redirects |-> follow_redirects, timeout |-> timeout]
        /\ upstream' = up
        /\ result' = FetchResult(url, extract_text, follow_redirects, timeout, up)

\* GET /analyze
analyze_url ==
    /\ request = Idle
    /\ \E url \in Urls, timeout \in AnalyzeTimeouts, up \in AnalyzeUpstreams :
        /\ request' = [op |-> "analyze", url |-> url, timeout |-> timeout]
        /\ upstream' = up
        /\ result' = AnalyzeResult(url, timeout, up)

\* GET /health, lines 273-276
health_check ==
    /\ request = Idle
    /\ request' = [op |-> "health"]
    /\ upstream' = NoUpstream
    /\ result' = [kind |-> "health", status |-> "healthy", service |-> "url-access-api"]

Next == fetch_url_content \/ analyze_url \/ health_check

Spec == Init /\ [][Next]_vars

----------------------------------------------------------------------------
(* extract_text_from_html applied to every document made of at most        *)
(* MaxFragments fragments.                                                 *)

InitExtract ==
    /\ \E fs \in SeqsUpTo(HtmlFragments, MaxFragments) :
        request = [op |-> "extract", html |-> Flatten(fs)]
    /\ upstream = NoUpstream
    /\ result = Pending

Extract ==
    /\ request.op = "extract"
    /\ result = Pending
    /\ result' = [kind |-> "extracted",
                  value |-> extract_text_from_html(request.html, "http://a.example/")]
    /\ UNCHANGED <<request, upstream>>

NextExtract == Extract

SpecExtract == InitExtract /\ [][NextExtract]_vars

----------------------------------------------------------------------------
(* The whitespace clean-up applied to every text of at most MaxTextLen     *)
(* characters.                                                             *)

InitClean ==
    /\ \E text \in SeqsUpTo(TextChars, MaxTextLen) :
        request = [op |-> "clean", text |-> text]
    /\ upstream = NoUpstream
    /\ result = Pending

CleanUp ==
    /\ request.op = "clean"
    /\ result = Pending
    /\ result' = [kind |-> "cleaned", text |-> CleanUpText(request.text)]
    /\ UNCHANGED <<request, upstream>>

NextClean == CleanUp

SpecClean == InitClean /\ [][NextClean]_vars

----------------------------------------------------------------------------
(* What the handler of the current request met.                            *)

\* the response requests.get returned to fetch_url_content
Received == requests_request(upstream, request.follow_redirects).value

FetchGotResponse == request.op = "fetch" /\ upstream.kind = "response"

AnalyzeGotResponse == request.op = "analyze" /\ upstream.kind = "response"

\* the whole body, and the body text the dispatch works on
WholeBody == Flatten(Received.chunks)
BodyText == Decode(WholeBody).value

\* the first k for which the first k chunks together exceed the limit, 0 if none
FirstExcess ==
    FirstOf({k \in 1..Len(Received.chunks) :
                ByteLen(Flatten(SubSeq(Received.chunks, 1, k))) > max_size})

\* the stream yields its first k chunks
Yields(k) == Received.fault = None \/ Received.fault_at >= k

IsSuccessStatus(st) == 200 <= st /\ st < 300
IsErrorStatus(st) == 400 <= st /\ st < 600

ReceivedContentType ==
    LowerStr(IF Received.content_type = None THEN <<>> ELSE Received.content_type[1])

HtmlBranch == Contains(ReceivedContentType, <<"t", "e", "x", "t", "/", "h", "t", "m", "l">>) /\ request.extract_text
JsonBranch == ~HtmlBranch /\ Contains(ReceivedContentType, <<"a", "p", "p", "l", "i", "c", "a", "t", "i", "o", "n", "/", "j", "s", "o", "n">>)

----------------------------------------------------------------------------
(* The claims.                                                             *)

\* C1: in fetch, whenever the accumulated body size exceeds 10 MiB after a
\* chunk of the streaming read (the first or a later one), the caller
\* receives the payload-too-large error, HTTP 413.
C1_TooLargeIs413 ==
    (/\ FetchGotResponse
     /\ IsSuccessStatus(Received.status_code)
     /\ FirstExcess # 0
     /\ Yields(FirstExcess))
    => (result.kind = "HTTPException" /\ result.status_code = 413)

\* C2: for every sequence of chunks of a 2xx body: a total of at most 10 MiB
\* (exactly 10 MiB included) is read to its end and a returned content is
\* derived from all chunks in order; a total above 10 MiB ends in an error;
\* no ContentResult is built from a proper prefix of the body.
C2_NoSilentTruncation ==
    (FetchGotResponse /\ IsSuccessStatus(Received.status_code)) =>
        /\ (Received.fault = None /\ ByteLen(WholeBody) <= max_size)
            => (/\ ReadBody(Received, 1, <<>>) = Return(WholeBody)
                /\ ~(result.kind = "HTTPException" /\ result.status_code = 413)
                /\ \/ result.kind = "URLContentResponse"
                   \/ ProcessContent(ReceivedContentType, request.extract_text,
                                     BodyText, request.url).outcome = "raise")
        /\ ByteLen(WholeBody) > max_size => result.kind = "HTTPException"
        /\ result.kind = "URLContentResponse"
            => (/\ Received.fault = None
                /\ ByteLen(WholeBody) <= max_size
                /\ result.content =
                       ProcessContent(ReceivedContentType, request.extract_text,
                                      BodyText, request.url).value.text)

\* a body of exactly 10 MiB, in more than one chunk, is returned whole
C2_Witness ==
    /\ FetchGotResponse
    /\ IsSuccessStatus(Received.status_code)
    /\ Len(Received.chunks) >= 2
    /\ ByteLen(WholeBody) = max_size
    /\ result.kind = "URLContentResponse"
    /\ result.content = WholeBody

\* C3: analyze never raises: whatever the HEAD request and the processing of
\* its headers do, the caller receives an AccessibilityResult, and a failure
\* is reported with isAccessible = false and a non-empty errorMessage.
C3_AnalyzeNeverRaises ==
    request.op = "analyze" =>
        /\ result.kind = "URLAnalysisResponse"
        /\ upstream.kind = "exception" => ~result.is_accessible
        /\ ~result.is_accessible
            => (result.error_message # None /\ result.error_message[1] # "")

\* an exception that is no requests exception, with an empty message
C3_Witness ==
    /\ request.op = "analyze"
    /\ upstream.kind = "exception"
    /\ upstream.exc.type = "ValueError"
    /\ upstream.exc.msg = ""
    /\ result.kind = "URLAnalysisResponse"
    /\ ~result.is_accessible

\* C4: in analyze, an upstream answer with an HTTP error status (4xx, 5xx) is
\* reported as the upstream-HTTP-error failure: isAccessible = false,
\* statusCode the upstream status, errorMessage with the HTTP-error prefix.
C4_UpstreamHttpErrorIsFailure ==
    (AnalyzeGotResponse /\ IsErrorStatus(upstream.response.status_code)) =>
        /\ result.kind = "URLAnalysisResponse"
        /\ ~result.is_accessible
        /\ result.status_code = Some(upstream.response.status_code)
        /\ result.error_message =
               Some("HTTP error: " \o ToString(upstream.response.status_code) \o " Error")

\* C5, as claimed: in fetch, every upstream response whose final status is not
\* 2xx (a 3xx received with followRedirects = false included) gives an HTTP
\* error with that status, and a ContentResult has a 2xx statusCode.
C5_NonSuccessStatusIsError ==
    FetchGotResponse =>
        /\ ~IsSuccessStatus(Received.status_code)
            => (result.kind = "HTTPException"
                /\ result.status_code = Received.status_code)
        /\ result.kind = "URLContentResponse" => IsSuccessStatus(result.status_code)

\* C5, amended: in fetch, every upstream response whose final status is 4xx or
\* 5xx gives an HTTP error with that status and no ContentResult; a
\* ContentResult carries the upstream status, which is never 4xx or 5xx.
C5_ErrorStatusIsPropagated ==
    FetchGotResponse =>
        /\ IsErrorStatus(Received.status_code)
            => (result.kind = "HTTPException"
                /\ result.status_code = Received.status_code)
        /\ result.kind = "URLContentResponse"
            => (result.status_code = Received.status_code
                /\ ~IsErrorStatus(result.status_code))

\* an upstream 404 reaches the caller as 404
C5_Witness ==
    /\ FetchGotResponse
    /\ Received.status_code = 404
    /\ result.kind = "HTTPException"
    /\ result.status_code = 404

\* C6: for every successful fetch, on every dispatch branch, wordCount is the
\* number of whitespace-delimited tokens of the returned content.
C6_WordCountOfReturnedContent ==
    (request.op = "fetch" /\ result.kind = "URLContentResponse")
        => result.word_count = Len(SplitWs(result.content))

\* the HTML branch changed the number of words of the body
C6_Witness ==
    /\ FetchGotResponse
    /\ result.kind = "URLContentResponse"
    /\ HtmlBranch
    /\ result.word_count > 0
    /\ result.word_count # Len(SplitWs(BodyText))

\* a string of the decimal digits 0-9, not empty
IsDecimalString(s) == s # <<>> /\ \A i \in 1..Len(s) : IsDigit(s[i])

\* C7: in analyze, a content-length header that is a valid non-negative
\* integer string gives contentLength that integer; any other value (absent,
\* empty, not an integer) gives no contentLength and still isAccessible =
\* true: no header value makes the result a failure.
C7_ContentLengthNeverFails ==
    AnalyzeGotResponse =>
        /\ result.kind = "URLAnalysisResponse"
        /\ result.is_accessible
        /\ result.content_length =
               IF /\ upstream.response.content_length # None
                  /\ IsDecimalString(upstream.response.content_length[1])
               THEN Some(DecimalValue(upstream.response.content_length[1], 0))
               ELSE None

\* C8: in fetch, when the content type contains application/json, the HTML
\* branch is not taken and the body does not parse as JSON, the result is a
\* ContentResult whose content is the decoded body unchanged, without
\* json_keys: a JSON parse failure never gives an error response.
C8_JsonFailureKeepsText ==
    (/\ FetchGotResponse
     /\ ~IsErrorStatus(Received.status_code)
     /\ ReadBody(Received, 1, <<>>).outcome = "return"
     /\ JsonBranch
     /\ ~json_loads(BodyText).ok)
    => (/\ result.kind = "URLContentResponse"
        /\ result.content = BodyText
        /\ ~HasKey(result.metadata, <<"j", "s", "o", "n", "_", "k", "e", "y", "s">>))

\* C9: the whitespace clean-up gives a text with no two consecutive spaces and
\* no leading or trailing space, and cleaning its output again changes nothing.
C9_CleanUpNormalForm ==
    result.kind = "cleaned" =>
        /\ ~Contains(result.text, <<" ", " ">>)
        /\ result.text # <<>> => (Head(result.text) # " " /\ result.text[Len(result.text)] # " ")
        /\ CleanUpText(result.text) = result.text

\* a text with a run of spaces inside and whitespace around it
C9_Witness ==
    /\ result.kind = "cleaned"
    /\ Contains(request.text, <<"a", " ", " ", "a">>)
    /\ Head(request.text) = " "
    /\ result.text = <<"a", " ", "a">>

\* the document without its script and style elements, by a scan of the text
RECURSIVE WithoutScripts(_)
WithoutScripts(html) ==
    LET open == FirstOf({i \in 1..Len(html) :
                            StartsAt(html, i, <<"<", "s", "c", "r", "i", "p", "t", ">">>) \/ StartsAt(html, i, <<"<", "s", "t", "y", "l", "e", ">">>)})
        close == IF StartsAt(html, open, <<"<", "s", "c", "r", "i", "p", "t", ">">>) THEN <<"<", "/", "s", "c", "r", "i", "p", "t", ">">> ELSE <<"<", "/", "s", "t", "y", "l", "e", ">">>
        end == FindFrom(html, open, close)
    IN  IF open = 0 THEN html
        ELSE IF end = 0 THEN Slice(html, 1, open - 1)
        ELSE Slice(html, 1, open - 1)
                \o WithoutScripts(Slice(html, end + Len(close), Len(html)))

\* the text without its tags
RECURSIVE WithoutTags(_)
WithoutTags(html) ==
    LET open == FindFrom(html, 1, <<"<">>)
        end == FindFrom(html, open, <<">">>)
    IN  IF open = 0 \/ end = 0 THEN html
        ELSE Slice(html, 1, open - 1) \o WithoutTags(Slice(html, end + 1, Len(html)))

NotSpace(c) == ~IsSpace(c)

\* the characters of a text that are not whitespace
Inked(text) == SelectSeq(text, NotSpace)

\* C10: after script and style nodes are removed, the text comes from the
\* main element if there is one; else from the article element; else from the
\* first div whose class contains content, main or article; else from body;
\* else from the whole tree; and no text of a script or style node is in it.
C10_RegionPriority ==
    result.kind = "extracted" =>
        LET soup == Decompose(BeautifulSoup(request.html), {<<"s", "c", "r", "i", "p", "t">>, <<"s", "t", "y", "l", "e">>})
            main == Find(soup, <<"m", "a", "i", "n">>)
            article == Find(soup, <<"a", "r", "t", "i", "c", "l", "e">>)
            div == FindContentDiv(soup)
            body == Find(soup, <<"b", "o", "d", "y">>)
            region == IF main # 0 THEN main
                      ELSE IF article # 0 THEN article
                      ELSE IF div # 0 THEN div
                      ELSE body
        IN  /\ result.value.text = CleanUpText(get_text(soup, region))
            /\ Contains(Inked(WithoutTags(WithoutScripts(request.html))),
                        Inked(result.value.text))

\* an article with text comes first and holds the main element, whose text
\* is the result
C10_Witness ==
    /\ result.kind = "extracted"
    /\ LET soup == Decompose(BeautifulSoup(request.html), {<<"s", "c", "r", "i", "p", "t">>, <<"s", "t", "y", "l", "e">>})
       IN  /\ Find(soup, <<"a", "r", "t", "i", "c", "l", "e">>) # 0
           /\ Find(soup, <<"a", "r", "t", "i", "c", "l", "e">>) < Find(soup, <<"m", "a", "i", "n">>)
           /\ result.value.text = <<"b">>
           /\ CleanUpText(get_text(soup, Find(soup, <<"a", "r", "t", "i", "c", "l", "e">>))) = <<"a", " ", "b">>

====
